---- MODULE Spec2Model ----
(***************************************************************************)
(* Model of app/main.py: the FastAPI video downloader.                     *)
(*                                                                         *)
(* Python strings that the code takes apart character by character (video  *)
(* titles, resolution labels) are sequences of one-character strings.      *)
(* An optional value (dict.get returning None) is a tuple: <<>> is None    *)
(* and <<v>> is the value v.                                               *)
(***************************************************************************)
EXTENDS Integers, Sequences, FiniteSets, TLC

VARIABLES
    files,          \* media files in ./downloads: a set of <<stem, ext>>
    dir_created,    \* whether ./downloads has been created by this run
    started,        \* number of requests received so far
    pc,             \* per worker process: position in the current handler
    req,            \* per worker: the request being served (repeat: its URL was served before it arrived)
    info,           \* per worker: <<>> or <<probe result>>
    selected,       \* per worker: <<>> or <<chosen rendition>>
    title,          \* per worker: <<>> or <<sanitized title>>
    response,       \* per worker: the response sent for the current request
    probes,         \* per worker: probe calls made for the current request
    downloads,      \* per worker: download calls made for the current request
    probe_result,   \* per worker: "none" | "ok" | "raised"
    download_result,\* per worker: "none" | "ok" | "skipped" | "raised"
    at_check,       \* per worker: "unchecked" | "present" | "absent": directory content when line 93 ran
    served,         \* URLs whose download wrote its file and ended in a file response
    san_pc,         \* sanitize_filename harness: "input" | "once" | "twice"
    san_in,         \* sanitize_filename harness: the input name
    san_out,        \* sanitize_filename harness: sanitize_filename(san_in)
    san_out2        \* sanitize_filename harness: sanitize_filename(san_out)

vars == <<files, dir_created, started, pc, req, info, selected, title, response,
          probes, downloads, probe_result, download_result, at_check, served,
          san_pc, san_in, san_out, san_out2>>

req_vars == <<files, dir_created, started, pc, req, info, selected, title, response,
              probes, downloads, probe_result, download_result, at_check, served>>

san_vars == <<san_pc, san_in, san_out, san_out2>>

-----------------------------------------------------------------------------
(* Bounds *)

\* Requests received in one run.
MaxRequests == 3

\* Longest name given to sanitize_filename in its harness.
MaxNameLen == 3

\* Worker processes serving requests over the same ./downloads directory.
\* Each handler is an `async def` without any await, so within one process
\* a handler runs from its first line to its return without interleaving;
\* handlers of different processes interleave freely.
Workers == {"w1", "w2"}

-----------------------------------------------------------------------------
(* Characters *)

Digits == {"0", "1", "2", "3", "4", "5", "6", "7", "8", "9"}

Letters ==
    {"a", "b", "c", "d", "e", "f", "g", "h", "i", "j", "k", "l", "m",
     "n", "o", "p", "q", "r", "s", "t", "u", "v", "w", "x", "y", "z",
     "A", "B", "C", "D", "E", "F", "G", "H", "I", "J", "K", "L", "M",
     "N", "O", "P", "Q", "R", "S", "T", "U", "V", "W", "X", "Y", "Z"}

\* str.isalnum for one character (over the ASCII characters the model uses).
isalnum(c) == c \in Letters \cup Digits

\* What str.strip() without arguments removes.
Whitespace == {" ", "\t", "\n"}

RECURSIVE lstrip(_)
lstrip(s) ==
    IF s # <<>> /\ Head(s) \in Whitespace THEN lstrip(Tail(s)) ELSE s

RECURSIVE rstrip(_)
rstrip(s) ==
    IF s # <<>> /\ s[Len(s)] \in Whitespace
    THEN rstrip(SubSeq(s, 1, Len(s) - 1))
    ELSE s

\* str.strip()
strip(s) == rstrip(lstrip(s))

\* The condition of the generator in sanitize_filename.
KeepChar(c) == isalnum(c) \/ c \in {" ", ".", "_", "-"}

\* A slip that trims before filtering instead of after.
sanitize_filename_strip_first(name) == SelectSeq(strip(name), KeepChar)

\* sanitize_filename(name)
sanitize_filename(name) == strip(SelectSeq(name, KeepChar))

-----------------------------------------------------------------------------
(* sanitize_filename harness *)

\* Characters the harness draws names from: kept ones, removed ones,
\* the space that is kept but trimmed, and a tab (whitespace that is removed).
NameChars == {"a", "1", " ", ".", "_", "-", ":", "#", "\t"}

RECURSIVE SeqsUpTo(_, _)
SeqsUpTo(S, n) ==
    IF n = 0 THEN {<<>>}
    ELSE LET shorter == SeqsUpTo(S, n - 1)
         IN  shorter \cup {Append(s, c) : s \in shorter, c \in S}

-----------------------------------------------------------------------------
(* Resolution labels and int() *)

NotP(c) == c # "p"

\* resolution.replace('p', '')
replace_p(s) == SelectSeq(s, NotP)

DigitVal(c) ==
    CASE c = "0" -> 0 [] c = "1" -> 1 [] c = "2" -> 2 [] c = "3" -> 3
      [] c = "4" -> 4 [] c = "5" -> 5 [] c = "6" -> 6 [] c = "7" -> 7
      [] c = "8" -> 8 [] c = "9" -> 9

RECURSIVE DigitsValue(_)
DigitsValue(s) ==
    IF s = <<>> THEN 0
    ELSE 10 * DigitsValue(SubSeq(s, 1, Len(s) - 1)) + DigitVal(s[Len(s)])

AllDigits(s) == s # <<>> /\ \A i \in 1..Len(s) : s[i] \in Digits

\* int(s) for a str: <<n>>, or <<>> when int raises ValueError.  Surrounding
\* whitespace and one leading sign are accepted; the labels of the model hold
\* no underscore, the only other thing int() accepts between digits.
int_(s) ==
    LET t == strip(s)
        signed == t # <<>> /\ Head(t) \in {"+", "-"}
        body == IF signed THEN Tail(t) ELSE t
    IN  IF ~AllDigits(body) THEN <<>>
        ELSE IF signed /\ Head(t) = "-" THEN << 0 - DigitsValue(body) >>
        ELSE << DigitsValue(body) >>

RECURSIVE NatToChars(_)
NatToChars(n) ==
    LET d == CHOOSE c \in Digits : DigitVal(c) = n % 10
    IN  IF n < 10 THEN <<d>> ELSE Append(NatToChars(n \div 10), d)

L360p == <<"3", "6", "0", "p">>
L720p == <<"7", "2", "0", "p">>
L2160p == <<"2", "1", "6", "0", "p">>
Lbest == <<"b", "e", "s", "t">>
Lp720 == <<"p", "7", "2", "0">>

\* Values of DownloadRequest.resolution the model sends: the field is a plain
\* str, so labels that are not <int>p are accepted by the request model.
Labels == {L360p, L720p, L2160p, Lbest, Lp720, <<>>}

-----------------------------------------------------------------------------
(* What the extractor's probe returns *)

Rendition(id, vcodec, note, height, size, approx, ext) ==
    [format_id |-> id, vcodec |-> vcodec, format_note |-> note, height |-> height,
     filesize |-> size, filesize_approx |-> approx, ext |-> ext]

URLs == {"u1", "u2", "u3", "u4"}

\* extract_info(url, download=False) for each URL of the model.
\*   u1: a clean title, two video renditions.
\*   u2: a title with a character sanitize_filename removes; an audio-only
\*       entry first, then a rendition known only by its height.
\*   u3: a clean title; one rendition without a vcodec key.
\*   u4: an empty format list.
Catalogue(url) ==
    CASE url = "u1" ->
            [title |-> << <<"a", "b">> >>,
             formats |-> << Rendition("18", <<"avc1">>, <<L360p>>, <<360>>, <<500>>, <<>>, <<"mp4">>),
                            Rendition("22", <<"avc1">>, <<L720p>>, <<720>>, <<>>, <<2048>>, <<"mp4">>) >>]
      [] url = "u2" ->
            [title |-> << <<"a", "#", "b">> >>,
             formats |-> << Rendition("140", <<"none">>, <<L720p>>, <<>>, <<1572864>>, <<>>, <<"m4a">>),
                            Rendition("136", <<"avc1">>, <<>>, <<720>>, <<0>>, <<1048575>>, <<"mp4">>),
                            Rendition("22", <<"avc1">>, <<L720p>>, <<720>>, <<>>, <<>>, <<"mp4">>) >>]
      [] url = "u3" ->
            [title |-> << <<"c", ".", "d">> >>,
             formats |-> << Rendition("43", <<>>, <<L360p>>, <<360>>, <<128>>, <<>>, <<"webm">>) >>]
      [] url = "u4" ->
            [title |-> << <<"c">> >>,
             formats |-> <<>>]

\* HTTPException(status_code, detail)
HTTPException(status, detail) ==
    [kind |-> "http_error", status |-> status, detail |-> detail, body |-> <<>>]

NoResponse == [kind |-> "none", status |-> 0, detail |-> "", body |-> <<>>]

\* A slip that reports a failed probe as a server error.
get_video_info_500(url, outcome) ==
    IF outcome = "raise"
    THEN [raised |-> TRUE, exc |-> HTTPException(500, "Failed to fetch video info"), value |-> <<>>]
    ELSE [raised |-> FALSE, exc |-> NoResponse, value |-> <<Catalogue(url)>>]

\* get_video_info(url): the probe either returns or raises; any exception of
\* the extractor becomes HTTPException(400).
get_video_info(url, outcome) ==
    IF outcome = "raise"
    THEN [raised |-> TRUE, exc |-> HTTPException(400, "Failed to fetch video info"), value |-> <<>>]
    ELSE [raised |-> FALSE, exc |-> NoResponse, value |-> <<Catalogue(url)>>]

ProbeOutcomes == {"return", "raise"}

-----------------------------------------------------------------------------
(* Rendition selection in download_video *)

\* Whether evaluating the comprehension's condition for f raises ValueError:
\* `and` / `or` short-circuit, so int() runs only for an entry whose vcodec is
\* not 'none' and whose format_note differs from the request.
CondRaises(f, resolution) ==
    /\ f.vcodec # <<"none">>
    /\ f.format_note # <<resolution>>
    /\ int_(replace_p(resolution)) = <<>>

\* The comprehension's condition for f, when evaluating it does not raise.
CondHolds(f, resolution) ==
    /\ f.vcodec # <<"none">>
    /\ \/ f.format_note = <<resolution>>
       \/ /\ f.height # <<>>
          /\ int_(replace_p(resolution)) # <<>>
          /\ f.height = int_(replace_p(resolution))

\* Whether building `filtered` raises.
FilterRaises(formats, resolution) ==
    \E i \in 1..Len(formats) : CondRaises(formats[i], resolution)

\* filtered = [f for f in formats if ...], when building it does not raise.
filtered(formats, resolution) ==
    LET Test(f) == CondHolds(f, resolution)
    IN  SelectSeq(formats, Test)

\* info.get('title', 'video')
TitleOrDefault(i) ==
    IF i.title = <<>> THEN <<"v", "i", "d", "e", "o">> ELSE i.title[1]

\* The extensions line 95 looks for, in its order.
CHECK_EXTS == <<"mp4", "mkv", "webm">>

\* A slip that looks for the merged output only.
file_exists_mp4_only(dir, t) == <<t, "mp4">> \in dir

\* file_exists = any(os.path.exists(<download_path>/<title>.<ext>) for ext in [...])
file_exists(dir, t) ==
    \E i \in 1..Len(CHECK_EXTS) : <<t, CHECK_EXTS[i]>> \in dir

\* The stem yt-dlp expands '%(title)s' to in outtmpl: the probe's own title,
\* not the sanitized one ("NA" when the video has no title).
OutTmplStem(i) ==
    IF i.title = <<>> THEN <<"N", "A">> ELSE i.title[1]

\* The file the download writes: outtmpl with merge_output_format 'mp4'.
OutputFile(i) == <<OutTmplStem(i), "mp4">>

\* file_path of the FileResponse.
ResponseFile(t) == <<t, "mp4">>

-----------------------------------------------------------------------------
(* format_size and the /info summary *)

\* f"{size:.2f}" for size = num / den (den a power of 1024, so the float
\* division is exact): the hundredths, rounded half to even.
Hundredths(num, den) ==
    LET n == num * 100
        q == n \div den
        r == n % den
    IN  IF 2 * r > den \/ (2 * r = den /\ q % 2 = 1) THEN q + 1 ELSE q

UNITS == <<"B", "KB", "MB", "GB">>

FormatNumber(num, den, unit) ==
    LET h == Hundredths(num, den)
    IN  [known |-> TRUE, whole |-> h \div 100, frac |-> h % 100, unit |-> unit]

RECURSIVE format_size_loop(_, _, _)
format_size_loop(num, den, k) ==
    IF k > Len(UNITS) THEN FormatNumber(num, den, "TB")
    ELSE IF num < 1024 * den THEN FormatNumber(num, den, UNITS[k])
    ELSE format_size_loop(num, den * 1024, k + 1)

\* format_size(size), size an optional integer.  The result stands for the
\* string "<whole>.<frac> <unit>", or "Unknown size".
format_size(size) ==
    IF size = <<>>
    THEN [known |-> FALSE, whole |-> 0, frac |-> 0, unit |-> "Unknown size"]
    ELSE format_size_loop(size[1], 1, 1)

\* a or b, for optional integers: a unless it is None or 0.
OrInt(a, b) == IF a # <<>> /\ a[1] # 0 THEN a ELSE b

\* resolution = f.get('format_note') or f.get('height'), then "<height>p"
\* when it is an int.
EntryResolution(f) ==
    IF f.format_note # <<>> /\ f.format_note[1] # <<>> THEN f.format_note
    ELSE IF f.height # <<>> /\ f.height[1] # 0
         THEN << Append(NatToChars(f.height[1]), "p") >>
    ELSE IF f.height # <<>> THEN << <<"0", "p">> >>
    ELSE <<>>

InfoEntry(f) ==
    [format_id |-> f.format_id,
     resolution |-> EntryResolution(f),
     filesize |-> format_size(OrInt(f.filesize, f.filesize_approx)),
     ext |-> f.ext]

\* The loop of get_formats: one entry per rendition whose vcodec is not 'none'.
RECURSIVE InfoEntries(_)
InfoEntries(formats) ==
    IF formats = <<>> THEN <<>>
    ELSE IF Head(formats).vcodec # <<"none">>
         THEN <<InfoEntry(Head(formats))>> \o InfoEntries(Tail(formats))
         ELSE InfoEntries(Tail(formats))

\* The body of get_formats' try block: a response, or a raised HTTPException.
get_formats_try(url, outcome) ==
    LET probe == get_video_info(url, outcome)
        formats == probe.value[1].formats
        filtered_formats == <<>>
    IN  IF probe.raised THEN [raised |-> TRUE, resp |-> probe.exc]
        ELSE IF formats = <<>>
             THEN [raised |-> TRUE, resp |-> HTTPException(404, "No valid video formats found.")]
        ELSE IF filtered_formats = <<>>
             THEN [raised |-> TRUE, resp |-> HTTPException(404, "No valid video formats found.")]
        ELSE [raised |-> FALSE,
              resp |-> [kind |-> "info", status |-> 200, detail |-> "",
                        body |-> <<probe.value[1].title, InfoEntries(formats)>>]]

\* get_formats: `except Exception` catches everything the try block raises,
\* the HTTPExceptions raised inside it included, and raises HTTPException(500).
get_formats(url, outcome) ==
    LET r == get_formats_try(url, outcome)
    IN  IF r.raised THEN HTTPException(500, "Failed to fetch video info")
        ELSE r.resp


-----------------------------------------------------------------------------
(* Responses *)

\* JSONResponse({"status": "exists", ...})
ExistsResponse == [kind |-> "exists", status |-> 200, detail |-> "", body |-> <<>>]

\* FileResponse(file_path, media_type='video/mp4', filename=...)
FileResponse(file) == [kind |-> "file", status |-> 200, detail |-> "video/mp4", body |-> file]

\* An exception no handler code catches: the framework answers 500
\* "Internal Server Error" by itself.
Unhandled(exc) == [kind |-> "unhandled", status |-> 500, detail |-> exc, body |-> <<>>]

-----------------------------------------------------------------------------
(* State *)

\* Media files ./downloads may hold when the run starts: the directory
\* outlives the process.
InitialFiles == { << <<"a", "b">>, "mkv" >>, << <<"c", ".", "d">>, "webm" >> }

InitRequests ==
    /\ files \in SUBSET InitialFiles
    /\ dir_created = FALSE
    /\ started = 0
    /\ pc = [w \in Workers |-> "idle"]
    /\ req = [w \in Workers |-> [kind |-> "none", url |-> "", resolution |-> <<>>, repeat |-> FALSE]]
    /\ info = [w \in Workers |-> <<>>]
    /\ selected = [w \in Workers |-> <<>>]
    /\ title = [w \in Workers |-> <<>>]
    /\ response = [w \in Workers |-> NoResponse]
    /\ probes = [w \in Workers |-> 0]
    /\ downloads = [w \in Workers |-> 0]
    /\ probe_result = [w \in Workers |-> "none"]
    /\ download_result = [w \in Workers |-> "none"]
    /\ at_check = [w \in Workers |-> "unchecked"]
    /\ served = {}

Init ==
    /\ InitRequests
    /\ san_pc = "input"
    /\ san_in = <<>>
    /\ san_out = <<>>
    /\ san_out2 = <<>>

\* A worker takes the next request: everything it kept from the last one is
\* gone (the handler's locals).
Receive(w, kind, url, resolution, first) ==
    /\ pc[w] \in {"idle", "done"}
    /\ started < MaxRequests
    /\ started' = started + 1
    /\ pc' = [pc EXCEPT ![w] = first]
    /\ req' = [req EXCEPT ![w] = [kind |-> kind, url |-> url, resolution |-> resolution,
                                  repeat |-> url \in served]]
    /\ info' = [info EXCEPT ![w] = <<>>]
    /\ selected' = [selected EXCEPT ![w] = <<>>]
    /\ title' = [title EXCEPT ![w] = <<>>]
    /\ response' = [response EXCEPT ![w] = NoResponse]
    /\ probes' = [probes EXCEPT ![w] = 0]
    /\ downloads' = [downloads EXCEPT ![w] = 0]
    /\ probe_result' = [probe_result EXCEPT ![w] = "none"]
    /\ download_result' = [download_result EXCEPT ![w] = "none"]
    /\ at_check' = [at_check EXCEPT ![w] = "unchecked"]

\* The handler ends with this response.
Respond(w, r) ==
    /\ response' = [response EXCEPT ![w] = r]
    /\ pc' = [pc EXCEPT ![w] = "done"]

-----------------------------------------------------------------------------
(* POST /download *)

\* download_video, lines 75-77: the request is bound and create_download_path()
\* makes ./downloads.
ReceiveDownload(w) ==
    \E url \in URLs, resolution \in Labels :
        /\ Receive(w, "download", url, resolution, "dl_probe")
        /\ dir_created' = TRUE
        /\ UNCHANGED <<files, served, san_vars>>

\* Line 79: info = get_video_info(str(url)); its HTTPException propagates.
Probe(w) ==
    /\ pc[w] = "dl_probe"
    /\ \E outcome \in ProbeOutcomes :
        LET r == get_video_info(req[w].url, outcome)
        IN  /\ probes' = [probes EXCEPT ![w] = @ + 1]
            /\ IF r.raised
               THEN /\ Respond(w, r.exc)
                    /\ probe_result' = [probe_result EXCEPT ![w] = "raised"]
                    /\ UNCHANGED info
               ELSE /\ info' = [info EXCEPT ![w] = r.value]
                    /\ pc' = [pc EXCEPT ![w] = "dl_select"]
                    /\ probe_result' = [probe_result EXCEPT ![w] = "ok"]
                    /\ UNCHANGED response
    /\ UNCHANGED <<files, dir_created, started, req, selected, title, downloads,
                   download_result, at_check, served, san_vars>>

\* Lines 80-91: build `filtered`, 404 when it is empty, else take its first
\* entry and sanitize the title.  A ValueError of int() is caught nowhere.
Select(w) ==
    /\ pc[w] = "dl_select"
    /\ LET formats == info[w][1].formats
           resolution == req[w].resolution
       IN  IF FilterRaises(formats, resolution)
           THEN /\ Respond(w, Unhandled("ValueError"))
                /\ UNCHANGED <<selected, title>>
           ELSE IF filtered(formats, resolution) = <<>>
           THEN /\ Respond(w, HTTPException(404, "No matching format found"))
                /\ UNCHANGED <<selected, title>>
           ELSE /\ selected' = [selected EXCEPT ![w] = << filtered(formats, resolution)[1] >>]
                /\ title' = [title EXCEPT ![w] = << sanitize_filename(TitleOrDefault(info[w][1])) >>]
                /\ pc' = [pc EXCEPT ![w] = "dl_check"]
                /\ UNCHANGED response
    /\ UNCHANGED <<files, dir_created, started, req, info, probes, downloads,
                   probe_result, download_result, at_check, served, san_vars>>

\* Whether the directory holds <t>.mp4, <t>.mkv or <t>.webm.
MediaPresent(dir, t) == \E ext \in {"mp4", "mkv", "webm"} : <<t, ext>> \in dir

\* What line 93 had in front of it (recorded for the properties below).
NoteCheck(w) ==
    at_check' = [at_check EXCEPT ![w] =
                    IF MediaPresent(files, title[w][1]) THEN "present" ELSE "absent"]

\* A slip that loses the early return and always goes on to the download.
Check_no_return(w) ==
    /\ pc[w] = "dl_check"
    /\ NoteCheck(w)
    /\ pc' = [pc EXCEPT ![w] = "dl_download"]
    /\ UNCHANGED <<response, files, dir_created, started, req, info, selected, title,
                   probes, downloads, probe_result, download_result, served, san_vars>>

\* A per-title deduplication the code does not have: a request that finds
\* another worker downloading the same title answers "exists".
Check_dedup(w) ==
    /\ pc[w] = "dl_check"
    /\ NoteCheck(w)
    /\ IF \/ file_exists(files, title[w][1])
          \/ \E o \in Workers \ {w} :
                pc[o] \in {"dl_download", "dl_downloading"} /\ title[o] = title[w]
       THEN Respond(w, ExistsResponse)
       ELSE /\ pc' = [pc EXCEPT ![w] = "dl_download"]
            /\ UNCHANGED response
    /\ UNCHANGED <<files, dir_created, started, req, info, selected, title,
                   probes, downloads, probe_result, download_result, served, san_vars>>

\* Lines 93-98: the existence check; "exists" is returned at once.
Check(w) ==
    /\ pc[w] = "dl_check"
    /\ NoteCheck(w)
    /\ IF file_exists(files, title[w][1])
       THEN Respond(w, ExistsResponse)
       ELSE /\ pc' = [pc EXCEPT ![w] = "dl_download"]
            /\ UNCHANGED response
    /\ UNCHANGED <<files, dir_created, started, req, info, selected, title,
                   probes, downloads, probe_result, download_result, served, san_vars>>

\* Lines 100-112: ydl.download([url]) is called; it blocks this worker.
DownloadStart(w) ==
    /\ pc[w] = "dl_download"
    /\ downloads' = [downloads EXCEPT ![w] = @ + 1]
    /\ pc' = [pc EXCEPT ![w] = "dl_downloading"]
    /\ UNCHANGED <<files, dir_created, started, req, info, selected, title, response,
                   probes, probe_result, download_result, at_check, served, san_vars>>

\* "ok": the file is written; "skipped": with 'ignoreerrors' the extractor
\* logs a failed download and returns without a file; "raise": it raises.
DownloadOutcomes == {"ok", "skipped", "raise"}

\* Lines 112-116: the download call ends; a FileResponse for
\* <download_path>/<title>.mp4, or HTTPException(500) on any exception.
DownloadFinish(w) ==
    /\ pc[w] = "dl_downloading"
    /\ \E outcome \in DownloadOutcomes :
        /\ download_result' = [download_result EXCEPT ![w] =
                                    IF outcome = "raise" THEN "raised" ELSE outcome]
        /\ IF outcome = "raise"
           THEN /\ Respond(w, HTTPException(500, "Download failed"))
                /\ UNCHANGED <<files, served>>
           ELSE /\ Respond(w, FileResponse(ResponseFile(title[w][1])))
                /\ files' = IF outcome = "ok" THEN files \cup {OutputFile(info[w][1])} ELSE files
                /\ served' = IF outcome = "ok" THEN served \cup {req[w].url} ELSE served
    /\ UNCHANGED <<dir_created, started, req, info, selected, title, probes, downloads,
                   probe_result, at_check, san_vars>>

-----------------------------------------------------------------------------
(* GET /info *)

ReceiveInfo(w) ==
    \E url \in URLs :
        /\ Receive(w, "info", url, <<>>, "info")
        /\ UNCHANGED <<files, dir_created, served, san_vars>>

\* get_formats, lines 119-160.
GetFormats(w) ==
    /\ pc[w] = "info"
    /\ \E outcome \in ProbeOutcomes :
        /\ probes' = [probes EXCEPT ![w] = @ + 1]
        /\ probe_result' = [probe_result EXCEPT ![w] = IF outcome = "raise" THEN "raised" ELSE "ok"]
        /\ info' = [info EXCEPT ![w] = get_video_info(req[w].url, outcome).value]
        /\ Respond(w, get_formats(req[w].url, outcome))
    /\ UNCHANGED <<files, dir_created, started, req, selected, title, downloads,
                   download_result, at_check, served, san_vars>>

-----------------------------------------------------------------------------
(* Specifications *)

Next ==
    \E w \in Workers :
        \/ ReceiveDownload(w)
        \/ Probe(w)
        \/ Select(w)
        \/ Check(w)
        \/ DownloadStart(w)
        \/ DownloadFinish(w)
        \/ ReceiveInfo(w)
        \/ GetFormats(w)

Spec == Init /\ [][Next]_vars

\* sanitize_filename applied to every name up to MaxNameLen characters, and
\* then to its own result.
InitSanitize ==
    /\ InitRequests
    /\ files = {}
    /\ san_pc = "input"
    /\ san_in \in SeqsUpTo(NameChars, MaxNameLen)
    /\ san_out = <<>>
    /\ san_out2 = <<>>

SanitizeOnce ==
    /\ san_pc = "input"
    /\ san_out' = sanitize_filename(san_in)
    /\ san_pc' = "once"
    /\ UNCHANGED <<san_in, san_out2, req_vars>>

SanitizeTwice ==
    /\ san_pc = "once"
    /\ san_out2' = sanitize_filename(san_out)
    /\ san_pc' = "twice"
    /\ UNCHANGED <<san_in, san_out, req_vars>>

NextSanitize == SanitizeOnce \/ SanitizeTwice

SpecSanitize == InitSanitize /\ [][NextSanitize]_vars


-----------------------------------------------------------------------------
(* Properties *)

DownloadWorkers == {w \in Workers : req[w].kind = "download"}
InfoWorkers == {w \in Workers : req[w].kind = "info"}

\* C1: when the existence check runs with <title>.mp4, <title>.mkv or
\* <title>.webm in the download directory, the request ends at once with
\* {status: "exists"} and has made no download call.
C1_ExistsWithoutDownload ==
    \A w \in DownloadWorkers :
        at_check[w] = "present" =>
            /\ pc[w] = "done"
            /\ response[w] = ExistsResponse
            /\ downloads[w] = 0

\* C1 witness: a request answered "exists" for a title that a download of
\* this run left behind as <title>.mp4.
C1_Witness ==
    \E w \in DownloadWorkers :
        /\ at_check[w] = "present"
        /\ pc[w] = "done"
        /\ <<title[w][1], "mp4">> \in files
        /\ served # {}

\* The claim's reading of "matches": codec present, and the label equal to
\* the request or the height equal to the integer in the request.
ClaimMatches(f, resolution) ==
    /\ f.vcodec # <<"none">>
    /\ \/ f.format_note = <<resolution>>
       \/ /\ int_(replace_p(resolution)) # <<>>
          /\ f.height = int_(replace_p(resolution))

\* C2: once selection has run, the selected rendition is the first matching
\* entry of the probe's list; when no entry matches the request has failed
\* with 404 "No matching format found" and nothing is selected.
C2_FirstMatchOr404 ==
    \A w \in DownloadWorkers :
        (probe_result[w] = "ok" /\ pc[w] # "dl_select") =>
            LET formats == info[w][1].formats
                hits == {i \in 1..Len(formats) : ClaimMatches(formats[i], req[w].resolution)}
            IN  IF hits = {}
                THEN /\ selected[w] = <<>>
                     /\ response[w] = HTTPException(404, "No matching format found")
                ELSE selected[w] = << formats[CHOOSE i \in hits : \A j \in hits : i <= j] >>

\* C3: the existence check is decided by the directory alone: a request
\* that finds no media file goes on to the download whatever the other
\* workers are doing, and one that finds a file does not.
C3_CheckSeesOnlyDirectory ==
    [][\A w \in Workers :
            (pc[w] = "dl_check" /\ pc'[w] # "dl_check") =>
                (pc'[w] = "dl_download" <=> ~MediaPresent(files, title[w][1]))]_vars

\* C3 witness: two requests for the same sanitized title both saw the file
\* absent and are both inside the download call, writing the same file.
C3_Race ==
    \E w1, w2 \in Workers :
        /\ w1 # w2
        /\ pc[w1] = "dl_downloading" /\ pc[w2] = "dl_downloading"
        /\ title[w1] = title[w2]
        /\ at_check[w1] = "absent" /\ at_check[w2] = "absent"
        /\ downloads[w1] = 1 /\ downloads[w2] = 1
        /\ OutputFile(info[w1][1]) = OutputFile(info[w2][1])

\* C4: GET /info whose probe returned an empty format list answers 404.
C4_InfoEmptyIs404 ==
    \A w \in InfoWorkers :
        (pc[w] = "done" /\ probe_result[w] = "ok" /\ info[w][1].formats = <<>>) =>
            response[w].status = 404

\* C5: GET /info whose probe returned a non-empty format list answers with
\* the title and one entry per rendition whose codec is present, in order.
C5_InfoSuccess ==
    \A w \in InfoWorkers :
        (pc[w] = "done" /\ probe_result[w] = "ok" /\ info[w][1].formats # <<>>) =>
            /\ response[w].kind = "info"
            /\ response[w].status = 200
            /\ response[w].body = <<info[w][1].title, InfoEntries(info[w][1].formats)>>

\* C6: a probe that raises ends the request with 400 before any selection,
\* existence check or download; a download call that raises ends it with
\* 500; neither extractor call is made a second time.
C6_FailureStage ==
    \A w \in DownloadWorkers :
        /\ probes[w] <= 1
        /\ downloads[w] <= 1
        /\ probe_result[w] = "raised" =>
            /\ pc[w] = "done"
            /\ response[w].kind = "http_error" /\ response[w].status = 400
            /\ selected[w] = <<>> /\ at_check[w] = "unchecked" /\ downloads[w] = 0
        /\ download_result[w] = "raised" =>
            /\ pc[w] = "done"
            /\ response[w].kind = "http_error" /\ response[w].status = 500
            /\ probes[w] = 1 /\ downloads[w] = 1

\* C6 witness: one request failed in the probe and another in the download.
C6_Witness ==
    \E w1, w2 \in DownloadWorkers :
        /\ probe_result[w1] = "raised"
        /\ download_result[w2] = "raised"

\* C7: the file the extractor writes is the file the response names and one
\* of the files the existence check examines; so a request that arrives
\* after its video was served with a file response, and reaches the
\* existence check, is answered "exists" without a download call.
C7_CacheKeyedBySanitizedTitle ==
    /\ \A w \in DownloadWorkers :
            download_result[w] = "ok" =>
                /\ OutputFile(info[w][1]) = response[w].body
                /\ file_exists({OutputFile(info[w][1])}, title[w][1])
    /\ \A w \in DownloadWorkers :
            (req[w].repeat /\ at_check[w] # "unchecked") =>
                /\ response[w] = ExistsResponse
                /\ downloads[w] = 0

\* The characters the claim lets through.
AllowedChars == Letters \cup Digits \cup {" ", ".", "_", "-"}

RECURSIVE RemoveOthers(_)
RemoveOthers(s) ==
    IF s = <<>> THEN <<>>
    ELSE IF Head(s) \in AllowedChars THEN <<Head(s)>> \o RemoveOthers(Tail(s))
    ELSE RemoveOthers(Tail(s))

RECURSIVE TrimSpaces(_)
TrimSpaces(s) ==
    IF s = <<>> THEN s
    ELSE IF Head(s) = " " THEN TrimSpaces(Tail(s))
    ELSE IF s[Len(s)] = " " THEN TrimSpaces(SubSeq(s, 1, Len(s) - 1))
    ELSE s

\* "My Video: Part #1.mp4"
ExampleName ==
    <<"M", "y", " ", "V", "i", "d", "e", "o", ":", " ", "P", "a", "r", "t", " ",
      "#", "1", ".", "m", "p", "4">>

\* "My Video Part 1.mp4"
ExampleClean ==
    <<"M", "y", " ", "V", "i", "d", "e", "o", " ", "P", "a", "r", "t", " ",
      "1", ".", "m", "p", "4">>

\* C8: sanitize_filename removes every character other than alphanumerics,
\* space, dot, underscore and hyphen, keeps the rest in order, then trims
\* leading and trailing spaces; applied to its own result it changes
\* nothing; "My Video: Part #1.mp4" gives "My Video Part 1.mp4".
C8_Sanitize ==
    /\ san_pc # "input" => san_out = TrimSpaces(RemoveOthers(san_in))
    /\ san_pc = "twice" => san_out2 = san_out
    /\ sanitize_filename(ExampleName) = ExampleClean

\* C8 witness: a name that starts with a space and holds a removed
\* character was sanitized, twice, to something non-empty.
C8_Witness ==
    /\ san_pc = "twice"
    /\ san_in # <<>> /\ Head(san_in) = " "
    /\ \E i \in 1..Len(san_in) : san_in[i] \notin AllowedChars
    /\ san_out # <<>>

\* The order of the steps of download_video.
StepOrder ==
    { <<"dl_probe", "dl_select">>, <<"dl_select", "dl_check">>,
      <<"dl_check", "dl_download">>, <<"dl_download", "dl_downloading">> }

EndsWithoutDownload(r) ==
    \/ r.kind = "exists"
    \/ r.kind = "http_error" /\ r.status \in {400, 404}

C9_State ==
    \A w \in DownloadWorkers :
        /\ downloads[w] <= 1
        /\ downloads[w] = 1 =>
            /\ probe_result[w] = "ok"
            /\ selected[w] # <<>>
            /\ at_check[w] = "absent"
        /\ (pc[w] = "done" /\ EndsWithoutDownload(response[w])) => downloads[w] = 0

C9_Step ==
    /\ \A w \in Workers :
        /\ (pc'[w] # pc[w] /\ pc[w] \notin {"idle", "done"} /\ pc'[w] # "done" /\ pc[w] # "info")
                => <<pc[w], pc'[w]>> \in StepOrder
        /\ downloads'[w] > downloads[w] => (pc[w] = "dl_download" /\ downloads[w] = 0)
        /\ (pc'[w] = "done" /\ pc[w] # "done" /\ response'[w].kind = "file")
                => pc[w] = "dl_downloading"
    /\ files' # files =>
        \E w \in Workers :
            /\ pc[w] = "dl_downloading" /\ pc'[w] = "done"
            /\ response'[w].kind = "file"
            /\ \A o \in Workers \ {w} : pc'[o] = pc[o]

\* C9: the steps of a request run in the order probe, select, existence
\* check, download, file response; the download is called at most once and
\* only after a successful probe, a selection and an existence check that
\* found no file; the directory's files change only in the step that ends a
\* download with a file response, so a request ending in 400, 404 or
\* "exists" changes none.
C9_StepOrder == [](C9_State) /\ [][C9_Step]_vars

\* C9 witness: one request ended with a file response after one download
\* call, another with "exists".
C9_Witness ==
    \E w1, w2 \in DownloadWorkers :
        /\ pc[w1] = "done" /\ response[w1].kind = "file" /\ downloads[w1] = 1
        /\ pc[w2] = "done" /\ response[w2].kind = "exists"

\* C10: every finished POST /download ended in one of the handler's own
\* outcomes: 400, 404, "exists", a file response or 500 "Download failed".
C10_DefinedOutcome ==
    \A w \in DownloadWorkers :
        pc[w] = "done" =>
            \/ response[w].kind \in {"exists", "file"}
            \/ /\ response[w].kind = "http_error"
               /\ response[w].status \in {400, 404, 500}


====
